---- MODULE Spec2Model ----
(***************************************************************************)
(* A model of the QueueBasedChat_System message pipeline:                  *)
(*   models/priority_queue.py   PriorityMessageQueue (heapq min-heap)      *)
(*   models/circular_queue.py   CircularQueue (deque with maxlen)          *)
(*   models/batch_queue.py      BatchQueue                                 *)
(*   models/retry_queue.py      RetryQueue                                 *)
(*   handlers/socket_handlers.py ChatSocketHandlers (the coordinator)      *)
(*                                                                         *)
(* Python's None is the empty tuple <<>> and a present value x is <<x>>,   *)
(* for optional arguments and optional results alike.  A text is a tuple   *)
(* of one-character strings.                                               *)
(***************************************************************************)
EXTENDS Integers, Sequences, FiniteSets, TLC

VARIABLES
    priority_queue,   \* PriorityMessageQueue.priority_queue: the heapq list of <<priority, counter, message_obj>>
    history,          \* CircularQueue.queue of the engine's history
    max_size,         \* CircularQueue.max_size (the deque's maxlen)
    message_counter,  \* PriorityMessageQueue.message_counter
    batch_queue,      \* BatchQueue.queue
    min_batch_size,   \* BatchQueue.min_batch_size
    max_batch_size,   \* BatchQueue.max_batch_size
    retry_queue,      \* RetryQueue.queue: <<message, retry_count, next_time>>
    max_retries,      \* RetryQueue.max_retries
    now,              \* time.time(), in whole time units
    pc,               \* position of the (single) sequential caller
    th,               \* per-thread position and locals of concurrent callers
    op,               \* name of the operation that made the last step
    ret,              \* what that operation returned
    obs               \* history variables: what the claims observe about past steps

vars == <<priority_queue, history, max_size, message_counter, batch_queue,
          min_batch_size, max_batch_size, retry_queue, max_retries, now,
          pc, th, op, ret, obs>>

engineVars == <<priority_queue, history, max_size, message_counter>>
batchVars == <<batch_queue, min_batch_size, max_batch_size>>
retryVars == <<retry_queue, max_retries>>

None == <<>>
Some(x) == <<x>>

\* ---------------------------------------------------------------- bounds

MaxAdmits == 4
MaxHistory == 2
MaxEnqueues == 5
MaxMinBatch == 2
MaxMaxBatch == 3
MaxSubmits == 5
MaxTime == 2
MaxOutage == 6
NProducers == 2
MsgsPerProducer == 2
NWorkers == 2
CallsPerWorker == 2
MaxRetryEnqueues == 3
MaxMaxRetries == 2
MaxRetryCount == 2
MaxDetectAdmits == 2
MaxRetryTime == 4

\* ------------------------------------------------------- sequence helpers

Range(s) == {s[i] : i \in DOMAIN s}

\* How many times x occurs in the sequence s.
Occurrences(s, x) == Cardinality({i \in DOMAIN s : s[i] = x})

\* The sequence s as a multiset.
BagOf(s) == [x \in Range(s) |-> Occurrences(s, x)]

Swap(s, i, j) == [s EXCEPT ![i] = s[j], ![j] = s[i]]

Min(a, b) == IF a <= b THEN a ELSE b

RECURSIVE Pow2(_)
Pow2(k) == IF k <= 0 THEN 1 ELSE 2 * Pow2(k - 1)

\* ------------------------------------------------------------- str methods

UpperCase == <<"A", "B", "C", "D", "E", "F", "G", "H", "I", "J", "K", "L", "M",
               "N", "O", "P", "Q", "R", "S", "T", "U", "V", "W", "X", "Y", "Z">>
LowerCase == <<"a", "b", "c", "d", "e", "f", "g", "h", "i", "j", "k", "l", "m",
               "n", "o", "p", "q", "r", "s", "t", "u", "v", "w", "x", "y", "z">>

IsUpperChar(c) == \E i \in DOMAIN UpperCase : UpperCase[i] = c
IsLowerChar(c) == \E i \in DOMAIN LowerCase : LowerCase[i] = c
IsSpace(c) == c \in {" ", "\t", "\n"}

\* str.lower()
LowerChar(c) ==
    IF IsUpperChar(c)
    THEN LowerCase[CHOOSE i \in DOMAIN UpperCase : UpperCase[i] = c]
    ELSE c
str_lower(s) == [i \in DOMAIN s |-> LowerChar(s[i])]

\* str.strip()
RECURSIVE str_lstrip(_)
str_lstrip(s) == IF s # <<>> /\ IsSpace(s[1]) THEN str_lstrip(Tail(s)) ELSE s
RECURSIVE str_rstrip(_)
str_rstrip(s) ==
    IF s # <<>> /\ IsSpace(s[Len(s)]) THEN str_rstrip(SubSeq(s, 1, Len(s) - 1)) ELSE s
str_strip(s) == str_rstrip(str_lstrip(s))

\* `sub in s`
str_contains(s, sub) ==
    \E i \in 1..(Len(s) - Len(sub) + 1) : SubSeq(s, i, i + Len(sub) - 1) = sub

\* str.isupper(): at least one cased character and no lower-case one
str_isupper(s) ==
    /\ \E i \in DOMAIN s : IsUpperChar(s[i])
    /\ \A i \in DOMAIN s : ~IsLowerChar(s[i])

\* str.count(c)
str_count(s, c) == Occurrences(s, c)

\* ------------------------------------------- PriorityMessageQueue: detection

PRIORITY_NAMES == [p \in 1..4 |-> <<"URGENT", "HIGH", "NORMAL", "LOW">>[p]]

URGENT_KEYWORDS == {
    <<"u", "r", "g", "e", "n", "t">>,
    <<"e", "m", "e", "r", "g", "e", "n", "c", "y">>,
    <<"h", "e", "l", "p">>,
    <<"a", "s", "a", "p">>,
    <<"9", "1", "1">>,
    <<"c", "r", "i", "t", "i", "c", "a", "l">>,
    <<"b", "u", "g">>,
    <<"d", "o", "w", "n">>,
    <<"b", "r", "o", "k", "e", "n">>,
    <<"c", "r", "a", "s", "h">> }

HIGH_KEYWORDS == {
    <<"i", "m", "p", "o", "r", "t", "a", "n", "t">>,
    <<"p", "r", "i", "o", "r", "i", "t", "y">>,
    <<"m", "e", "e", "t", "i", "n", "g">>,
    <<"d", "e", "a", "d", "l", "i", "n", "e">>,
    <<"i", "s", "s", "u", "e">>,
    <<"a", "t", "t", "e", "n", "t", "i", "o", "n">>,
    <<"r", "e", "v", "i", "e", "w">>,
    <<"a", "p", "p", "r", "o", "v", "a", "l">> }

\* PRIORITY_NAMES.get(priority, "NORMAL")
get_priority_name(priority) ==
    IF priority \in DOMAIN PRIORITY_NAMES THEN PRIORITY_NAMES[priority] ELSE "NORMAL"

\* the detection with the HIGH keywords tried before the URGENT ones
auto_detect_high_first(message) ==
    LET message_lower == str_strip(str_lower(message)) IN
    IF \E keyword \in HIGH_KEYWORDS : str_contains(message_lower, keyword) THEN 2
    ELSE IF \E keyword \in URGENT_KEYWORDS : str_contains(message_lower, keyword) THEN 1
    ELSE IF str_contains(message, <<"@">>) /\ Len(message) > 1 THEN 2
    ELSE IF Len(message) > 5 /\ str_isupper(message) THEN 2
    ELSE IF str_count(message, "!") >= 3 THEN 2
    ELSE 3

auto_detect_priority(message) ==
    LET message_lower == str_strip(str_lower(message)) IN
    IF \E keyword \in URGENT_KEYWORDS : str_contains(message_lower, keyword) THEN 1
    ELSE IF \E keyword \in HIGH_KEYWORDS : str_contains(message_lower, keyword) THEN 2
    ELSE IF str_contains(message, <<"@">>) /\ Len(message) > 1 THEN 2
    ELSE IF Len(message) > 5 /\ str_isupper(message) THEN 2
    ELSE IF str_count(message, "!") >= 3 THEN 2
    ELSE 3

\* ------------------------------------------------------------------ heapq
\* Heap items are the tuples <<priority, counter, message_obj>>.  Python compares
\* tuples item by item: the first two items are integers, the third is a dict, and
\* ordering two dicts raises TypeError.

TupleLT(a, b) == a[1] < b[1] \/ (a[1] = b[1] /\ a[2] < b[2])

\* a < b reaches the dicts (equal priority and counter, different dicts) and raises
TupleRaises(a, b) == a[1] = b[1] /\ a[2] = b[2] /\ a[3] # b[3]

\* heapq._siftdown: move the item at pos up while it is smaller than its parent.
\* Positions are 1-based here: the parent of pos is pos \div 2.
RECURSIVE siftdown(_, _, _)
siftdown(heap, startpos, pos) ==
    IF pos > startpos /\ TupleLT(heap[pos], heap[pos \div 2])
    THEN siftdown(Swap(heap, pos, pos \div 2), startpos, pos \div 2)
    ELSE heap

\* whether _siftdown raises TypeError on its way
RECURSIVE siftdown_raises(_, _, _)
siftdown_raises(heap, startpos, pos) ==
    /\ pos > startpos
    /\ \/ TupleRaises(heap[pos], heap[pos \div 2])
       \/ /\ TupleLT(heap[pos], heap[pos \div 2])
          /\ siftdown_raises(Swap(heap, pos, pos \div 2), startpos, pos \div 2)

\* heapq.heappush: append, then sift the new item towards the root
heappush(heap, item) == siftdown(Append(heap, item), 1, Len(heap) + 1)

heappush_raises(heap, item) == siftdown_raises(Append(heap, item), 1, Len(heap) + 1)

\* the smaller child of pos (the right one on a tie, as `not heap[child] < heap[right]`)
SmallerChild(heap, pos) ==
    LET childpos == 2 * pos
        rightpos == childpos + 1
    IN  IF rightpos <= Len(heap) /\ ~TupleLT(heap[childpos], heap[rightpos])
        THEN rightpos ELSE childpos

\* heapq._siftup: bubble the smaller child up until a leaf is hit, then sift the
\* displaced item down from there
RECURSIVE siftup_from(_, _, _)
siftup_from(heap, startpos, pos) ==
    IF 2 * pos <= Len(heap)
    THEN siftup_from(Swap(heap, pos, SmallerChild(heap, pos)), startpos,
                     SmallerChild(heap, pos))
    ELSE siftdown(heap, startpos, pos)

siftup(heap, pos) == siftup_from(heap, pos, pos)

\* whether _siftup raises TypeError on its way
RECURSIVE siftup_raises_from(_, _, _)
siftup_raises_from(heap, startpos, pos) ==
    IF 2 * pos <= Len(heap)
    THEN \/ /\ 2 * pos + 1 <= Len(heap)
            /\ TupleRaises(heap[2 * pos], heap[2 * pos + 1])
         \/ siftup_raises_from(Swap(heap, pos, SmallerChild(heap, pos)), startpos,
                               SmallerChild(heap, pos))
    ELSE siftdown_raises(heap, startpos, pos)

\* the list as _siftup leaves it when a comparison of two children raises: the
\* sifting stops at that comparison
RECURSIVE siftup_partial(_, _, _)
siftup_partial(heap, startpos, pos) ==
    IF 2 * pos <= Len(heap)
    THEN IF 2 * pos + 1 <= Len(heap) /\ TupleRaises(heap[2 * pos], heap[2 * pos + 1])
         THEN heap
         ELSE siftup_partial(Swap(heap, pos, SmallerChild(heap, pos)), startpos,
                             SmallerChild(heap, pos))
    ELSE siftdown(heap, startpos, pos)

\* the list after a heappop that raised: the last item sits where the sifting stopped
heappop_raised(heap) ==
    siftup_partial([SubSeq(heap, 1, Len(heap) - 1) EXCEPT ![1] = heap[Len(heap)]], 1, 1)

\* heappop that puts the last item at the root and leaves it there
heappop_nosift(heap) ==
    LET lastelt == heap[Len(heap)]
        rest == SubSeq(heap, 1, Len(heap) - 1)
    IN  IF rest # <<>>
        THEN [heap |-> [rest EXCEPT ![1] = lastelt], item |-> heap[1]]
        ELSE [heap |-> rest, item |-> lastelt]

\* heapq.heappop: [heap |-> the list afterwards, item |-> the item returned]
heappop(heap) ==
    LET lastelt == heap[Len(heap)]
        rest == SubSeq(heap, 1, Len(heap) - 1)
    IN  IF rest # <<>>
        THEN [heap |-> siftup([rest EXCEPT ![1] = lastelt], 1), item |-> heap[1]]
        ELSE [heap |-> rest, item |-> lastelt]

heappop_raises(heap) ==
    /\ Len(heap) > 1
    /\ siftup_raises_from([SubSeq(heap, 1, Len(heap) - 1) EXCEPT ![1] = heap[Len(heap)]], 1, 1)

\* ---------------------------------------------------------- CircularQueue

\* a deque without maxlen
circular_enqueue_unbounded(queue, maxlen, message) == Append(queue, message)

\* deque(maxlen=max_size).append: the oldest entry falls off a full deque
circular_enqueue(queue, maxlen, message) ==
    LET q == Append(queue, message) IN
    IF Len(q) > maxlen THEN SubSeq(q, Len(q) - maxlen + 1, Len(q)) ELSE q

\* CircularQueue.get_all
get_all(queue) == queue

\* --------------------------------------------------- PriorityMessageQueue

\* `if manual_priority:` passing for 1, 2 and 3 only
Truthy_below_low(manual_priority) == manual_priority # None /\ manual_priority[1] \in 1..3

\* Python truth value of the optional integer manual_priority: None and 0 are false
Truthy(manual_priority) == manual_priority # None /\ manual_priority[1] # 0

\* The engine's state as one value, for the operations below.
Engine(pq, hist, ctr) == [pq |-> pq, hist |-> hist, ctr |-> ctr]

\* add_message: the engine afterwards and, as msg, the message object returned.
\* t is time.time(), maxlen the history's capacity.
add_message(E, maxlen, message, user, manual_priority, t) ==
    LET counter == E.ctr + 1
        priority == IF Truthy(manual_priority) THEN manual_priority[1]
                    ELSE auto_detect_priority(message)
        detection_method == IF Truthy(manual_priority) THEN "manual" ELSE "auto"
        message_obj == [text |-> message,
                        priority |-> priority,
                        priority_name |-> get_priority_name(priority),
                        user |-> user,
                        timestamp |-> t,
                        counter |-> counter,
                        detection_method |-> detection_method]
    IN  [pq |-> heappush(E.pq, <<priority, counter, message_obj>>),
         hist |-> circular_enqueue(E.hist, maxlen, message_obj),
         ctr |-> counter,
         msg |-> message_obj]

\* get_next_message that leaves the message in the heap
get_next_message_keeps(E) ==
    [pq |-> E.pq, hist |-> E.hist, ctr |-> E.ctr,
     msg |-> IF E.pq = <<>> THEN None ELSE Some(E.pq[1][3])]

\* get_next_message: the engine afterwards and, as msg, the optional result
get_next_message(E) ==
    IF E.pq = <<>>
    THEN [pq |-> E.pq, hist |-> E.hist, ctr |-> E.ctr, msg |-> None]
    ELSE [pq |-> heappop(E.pq).heap, hist |-> E.hist, ctr |-> E.ctr,
          msg |-> Some(heappop(E.pq).item[3])]

peek_next_message(E) == IF E.pq = <<>> THEN None ELSE Some(E.pq[1][3])

\* statistics counted over the history instead of the pending set
get_queue_stats_history(E) ==
    LET names == {get_priority_name(E.hist[i].priority) : i \in DOMAIN E.hist} IN
    [total_messages |-> Len(E.hist),
     history_size |-> Len(get_all(E.hist)),
     priority_breakdown |->
        [n \in names |->
            Cardinality({i \in DOMAIN E.hist : get_priority_name(E.hist[i].priority) = n})]]

get_queue_stats(E) ==
    LET names == {get_priority_name(E.pq[i][1]) : i \in DOMAIN E.pq} IN
    [total_messages |-> Len(E.pq),
     history_size |-> Len(get_all(E.hist)),
     priority_breakdown |->
        [n \in names |->
            Cardinality({i \in DOMAIN E.pq : get_priority_name(E.pq[i][1]) = n})]]

\* clear_queue that also resets the counter, as clear_all does
clear_queue_resets(E) == [pq |-> <<>>, hist |-> E.hist, ctr |-> 0, msg |-> Len(E.pq)]

\* clear_queue: keeps the history and the counter
clear_queue(E) == [pq |-> <<>>, hist |-> E.hist, ctr |-> E.ctr, msg |-> Len(E.pq)]

\* clear_all: clears the heap and the history and resets the counter
clear_all(E) ==
    [pq |-> <<>>, hist |-> <<>>, ctr |-> 0,
     msg |-> [queue_cleared |-> Len(E.pq), history_cleared |-> Len(get_all(E.hist))]]

\* -------------------------------------------------------------- BatchQueue

\* enqueue at the head (deque.appendleft)
batch_enqueue_front(queue, message) == <<message>> \o queue

\* BatchQueue.enqueue
batch_enqueue(queue, message) == Append(queue, message)

\* the while loop of flush: popleft into batch while the queue is non-empty and the
\* batch is below max_batch_size
RECURSIVE flush_loop(_, _, _)
flush_loop(queue, batch, maxb) ==
    IF queue # <<>> /\ Len(batch) < maxb
    THEN flush_loop(Tail(queue), Append(batch, Head(queue)), maxb)
    ELSE [queue |-> queue, batch |-> batch]

\* flush without the test against min_batch_size
flush_eager(queue, minb, maxb) == flush_loop(queue, <<>>, maxb)

\* flush that drains the whole queue once the minimum is reached
flush_unbounded(queue, minb, maxb) ==
    IF Len(queue) < minb
    THEN [queue |-> queue, batch |-> <<>>]
    ELSE [queue |-> <<>>, batch |-> queue]

\* BatchQueue.flush: [queue |-> the queue afterwards, batch |-> the list returned]
flush(queue, minb, maxb) ==
    IF Len(queue) < minb
    THEN [queue |-> queue, batch |-> <<>>]
    ELSE flush_loop(queue, <<>>, maxb)

\* force_flush without the clear
force_flush_keeps(queue) == [queue |-> queue, batch |-> queue]

\* BatchQueue.force_flush
force_flush(queue) == [queue |-> <<>>, batch |-> queue]

\* -------------------------------------------------------------- RetryQueue

\* RetryQueue.enqueue at time t: the entry (message, retry_count, next_time)
retry_enqueue(queue, message, retry_count, t) ==
    Append(queue, <<message, retry_count, t + Pow2(retry_count)>>)

\* get_ready_message taking the first entry whose deadline has passed, wherever
\* it is in the queue
get_ready_message_any(queue, t) ==
    IF \E i \in DOMAIN queue : t >= queue[i][3]
    THEN LET i == CHOOSE i \in DOMAIN queue :
                      /\ t >= queue[i][3]
                      /\ \A j \in 1..(i - 1) : t < queue[j][3]
         IN  [queue |-> SubSeq(queue, 1, i - 1) \o SubSeq(queue, i + 1, Len(queue)),
              ready |-> Some(<<queue[i][1], queue[i][2]>>)]
    ELSE [queue |-> queue, ready |-> None]

\* get_ready_message with the deadline test one time unit early
get_ready_message_early(queue, t) ==
    IF queue = <<>>
    THEN [queue |-> queue, ready |-> None]
    ELSE IF t + 1 >= queue[1][3]
         THEN [queue |-> Tail(queue), ready |-> Some(<<queue[1][1], queue[1][2]>>)]
         ELSE [queue |-> queue, ready |-> None]

\* RetryQueue.get_ready_message at time t: the queue afterwards and the optional
\* (message, retry_count)
get_ready_message(queue, t) ==
    IF queue = <<>>
    THEN [queue |-> queue, ready |-> None]
    ELSE IF t >= queue[1][3]
         THEN [queue |-> Tail(queue), ready |-> Some(<<queue[1][1], queue[1][2]>>)]
         ELSE [queue |-> queue, ready |-> None]

\* process without the max_retries limit
process_no_limit(queue, maxr, t) ==
    LET R == get_ready_message(queue, t) IN
    IF R.ready = None
    THEN [queue |-> R.queue, msg |-> None, dropped |-> None]
    ELSE [queue |-> R.queue, msg |-> Some(R.ready[1][1]), dropped |-> None]

\* RetryQueue.process at time t: the queue afterwards, the optional message
\* returned, and (for the observers) the optional message dropped
process(queue, maxr, t) ==
    LET R == get_ready_message(queue, t) IN
    IF R.ready = None
    THEN [queue |-> R.queue, msg |-> None, dropped |-> None]
    ELSE IF R.ready[1][2] < maxr
         THEN [queue |-> R.queue, msg |-> Some(R.ready[1][1]), dropped |-> None]
         ELSE [queue |-> R.queue, msg |-> None, dropped |-> Some(R.ready[1][1])]

\* ----------------------------------------------------- utils/message_utils

MAX_MESSAGE_LENGTH == 2000
MAX_USERNAME_LENGTH == 50

RECURSIVE Flatten(_)
Flatten(ss) == IF ss = <<>> THEN <<>> ELSE Head(ss) \o Flatten(Tail(ss))

\* html.escape(s) (quote=True), character by character
EscapeChar(c) ==
    CASE c = "&" -> <<"&", "a", "m", "p", ";">>
      [] c = "<" -> <<"&", "l", "t", ";">>
      [] c = ">" -> <<"&", "g", "t", ";">>
      [] c = "\"" -> <<"&", "q", "u", "o", "t", ";">>
      [] c = "'" -> <<"&", "#", "x", "2", "7", ";">>
      [] OTHER -> <<c>>
html_escape(s) == Flatten([i \in DOMAIN s |-> EscapeChar(s[i])])

\* validate_message without the empty check
validate_message_accepts_empty(message) ==
    LET stripped == str_strip(message) IN
    IF Len(stripped) > MAX_MESSAGE_LENGTH
    THEN [valid |-> FALSE, sanitized_message |-> SubSeq(stripped, 1, MAX_MESSAGE_LENGTH)]
    ELSE [valid |-> TRUE, sanitized_message |-> html_escape(stripped)]

\* validate_message: [valid, sanitized_message]
validate_message(message) ==
    LET stripped == str_strip(message) IN
    IF stripped = <<>> THEN [valid |-> FALSE, sanitized_message |-> <<>>]
    ELSE IF Len(stripped) > MAX_MESSAGE_LENGTH
         THEN [valid |-> FALSE, sanitized_message |-> SubSeq(stripped, 1, MAX_MESSAGE_LENGTH)]
         ELSE [valid |-> TRUE, sanitized_message |-> html_escape(stripped)]

Digits == <<"0", "1", "2", "3", "4", "5", "6", "7", "8", "9">>
IsDigit(c) == \E i \in DOMAIN Digits : Digits[i] = c
\* \w of a regular expression, for the characters of this model, and \s
IsWordChar(c) == IsUpperChar(c) \/ IsLowerChar(c) \/ IsDigit(c) \/ c = "_"

ANONYMOUS == <<"A", "n", "o", "n", "y", "m", "o", "u", "s">>
SYSTEM == <<"S", "Y", "S", "T", "E", "M">>

\* validate_username: the sanitized username
validate_username(username) ==
    LET stripped == str_strip(username)
        named == IF stripped = <<>> THEN ANONYMOUS ELSE stripped
        capped == IF Len(named) > MAX_USERNAME_LENGTH
                  THEN SubSeq(named, 1, MAX_USERNAME_LENGTH) ELSE named
        KeepChar(c) == IsWordChar(c) \/ c = "-" \/ IsSpace(c)
    IN  html_escape(SelectSeq(capped, KeepChar))

\* format_timestamp: HH:MM:SS of the timestamp (local time taken as UTC)
format_timestamp(timestamp) ==
    <<(timestamp \div 3600) % 24, (timestamp \div 60) % 60, timestamp % 60>>

\* format_message_for_client: the payload keeps no counter
format_message_for_client(message_obj) ==
    [text |-> message_obj.text,
     user |-> message_obj.user,
     priority |-> message_obj.priority,
     priority_name |-> message_obj.priority_name,
     timestamp |-> message_obj.timestamp,
     formatted_time |-> format_timestamp(message_obj.timestamp),
     detection_method |-> message_obj.detection_method]

\* ------------------------------------------------- inputs and initial state

T_hi == <<"h", "i">>
T_bug == <<"b", "u", "g">>

EngineTexts == {T_hi, T_bug}
U_alice == <<"a", "l", "i", "c", "e">>
Users == {U_alice}
EnginePriorities == {None, Some(1), Some(4)}

\* What the claims observe of the past:
\*   admit_log    the sequence numbers given out, in admission order, since the start
\*   since_clear  how many of them were given out after the last clear_all
\*   admitted     the messages admitted since the last clear_all, in order
\*   args         the text and the manual_priority of the last add_message call made
\*                with the detection inputs
\*   taken        how many messages get_next_message and clear_queue have removed
\*                from the pending set since the last clear_all
\*   run          the messages returned by the get_next_message calls made since the
\*                last other engine operation
\*   n_enq        how many messages were put into the Batch Stage directly
\*   released     the non-empty batches flush and force_flush returned, in order,
\*                each with the operation that returned it
\*   popped       for each popleft of a concurrent get_ready_message: the entry it
\*                removed and the (message, retry_count) the caller got
\*   enq_log      for each direct RetryQueue.enqueue call, in order: the message id,
\*                the retry_count argument and the time of the call
\*   left         for each entry get_ready_message / process removed, in order: its
\*                message id, its retry_count, whether the caller got the message
\*                ("returned") or not ("dropped"), and the time
\*   took         the entry the last Retry Stage step removed, if it removed one
\*   pulled       the sequence numbers of the messages the handlers took from the
\*                engine, in order
\*   request      the raw text of the last on_send_message call
\*   emit         the delivery attempt of the last step, if it made one: its
\*                result ("ok", "failed", or "none") and the messages it carried
\*   tries        for each Retry Stage entry, in queue order, how many redelivery
\*                attempts its message has been through (counted up to one past
\*                max_retries)
\*   delivered, dropped, lost
\*                how many messages were delivered, dropped at max_retries, and
\*                discarded after a failed delivery
NoEmit == [result |-> "none", batch |-> <<>>]
InitObs == [admit_log |-> <<>>, since_clear |-> 0, admitted |-> <<>>, taken |-> 0,
            run |-> <<>>,
            n_enq |-> 0, released |-> <<>>, popped |-> <<>>,
            enq_log |-> <<>>, left |-> <<>>, took |-> None, request |-> None,
            args |-> None, pulled |-> <<>>,
            emit |-> NoEmit, tries |-> <<>>,
            delivered |-> 0, dropped |-> 0, lost |-> 0]

\* app.py: PriorityMessageQueue(max_history_size=1000)
MAX_HISTORY_SIZE == 1000

InitEngine == priority_queue = <<>> /\ history = <<>> /\ message_counter = 0
\* ChatSocketHandlers.__init__: BatchQueue(min_batch_size=5, max_batch_size=50)
InitBatch == batch_queue = <<>> /\ min_batch_size = 5 /\ max_batch_size = 50
\* ChatSocketHandlers.__init__: RetryQueue(max_retries=5)
InitRetry == retry_queue = <<>> /\ max_retries = 5
InitRest == now = 0 /\ pc = "idle" /\ th = <<>> /\ op = "init" /\ ret = None /\ obs = InitObs

\* ------------------------- the engine's operations, called one after another

CurEngine == Engine(priority_queue, history, message_counter)

SetEngine(E) ==
    /\ priority_queue' = E.pq
    /\ history' = E.hist
    /\ message_counter' = E.ctr

EngineAdd ==
    \E message \in EngineTexts, user \in Users, manual_priority \in EnginePriorities :
        LET R == add_message(CurEngine, max_size, message, user, manual_priority, now) IN
        /\ Len(obs.admit_log) < MaxAdmits
        /\ SetEngine(R)
        /\ op' = "add_message"
        /\ ret' = Some(R.msg)
        /\ obs' = [obs EXCEPT !.admit_log = Append(@, R.msg.counter),
                              !.since_clear = @ + 1,
                              !.admitted = Append(@, R.msg),
                              !.run = <<>>]
        /\ UNCHANGED <<max_size, batchVars, retryVars, now, pc, th>>

EngineNext ==
    LET R == get_next_message(CurEngine) IN
    /\ SetEngine(R)
    /\ op' = "get_next_message"
    /\ ret' = R.msg
    /\ obs' = [obs EXCEPT !.run = @ \o R.msg, !.taken = @ + Len(R.msg)]
    /\ UNCHANGED <<max_size, batchVars, retryVars, now, pc, th>>

EnginePeek ==
    /\ op' = "peek_next_message"
    /\ ret' = peek_next_message(CurEngine)
    /\ obs' = [obs EXCEPT !.run = <<>>]
    /\ UNCHANGED <<engineVars, batchVars, retryVars, now, pc, th>>

EngineStats ==
    /\ op' = "get_queue_stats"
    /\ ret' = Some(get_queue_stats(CurEngine))
    /\ obs' = [obs EXCEPT !.run = <<>>]
    /\ UNCHANGED <<engineVars, batchVars, retryVars, now, pc, th>>

EngineClearQueue ==
    LET R == clear_queue(CurEngine) IN
    /\ SetEngine(R)
    /\ op' = "clear_queue"
    /\ ret' = Some(R.msg)
    /\ obs' = [obs EXCEPT !.run = <<>>, !.taken = @ + Len(priority_queue)]
    /\ UNCHANGED <<max_size, batchVars, retryVars, now, pc, th>>

EngineClearAll ==
    LET R == clear_all(CurEngine) IN
    /\ SetEngine(R)
    /\ op' = "clear_all"
    /\ ret' = Some(R.msg)
    /\ obs' = [obs EXCEPT !.since_clear = 0, !.admitted = <<>>, !.taken = 0, !.run = <<>>]
    /\ UNCHANGED <<max_size, batchVars, retryVars, now, pc, th>>

\* PriorityMessageQueue(max_history_size) with a small capacity, then any sequence
\* of its operations
InitEngineSpec ==
    /\ InitEngine /\ InitBatch /\ InitRetry /\ InitRest
    /\ max_size \in 1..MaxHistory

NextEngine ==
    \/ EngineAdd
    \/ EngineNext
    \/ EnginePeek
    \/ EngineStats
    \/ EngineClearQueue
    \/ EngineClearAll

SpecEngine == InitEngineSpec /\ [][NextEngine]_vars

\* ------------------------------- add_message over the inputs of the detection

T_urgent_bangs == <<"t", "h", "i", "s", " ", "i", "s", " ", "u", "r", "g", "e", "n", "t", "!", "!", "!">>
T_bug_review == <<"b", "u", "g", " ", "r", "e", "v", "i", "e", "w">>
T_review == <<"r", "e", "v", "i", "e", "w">>
T_mention == <<"h", "e", "l", "l", "o", " ", "@", "b", "o", "b">>
T_at == <<"@">>
T_caps == <<"H", "E", "L", "L", "O", " ", "T", "H", "E", "R", "E">>
T_caps5 == <<"H", "E", "L", "L", "O">>
T_bangs3 == <<"w", "o", "w", "!", "!", "!">>
T_bangs2 == <<"w", "o", "w", "!", "!">>
T_URGENT == <<"U", "R", "G", "E", "N", "T">>
T_caps_review == <<"P", "L", "E", "A", "S", "E", " ", "R", "E", "V", "I", "E", "W", " ", "N", "O", "W">>

\* texts for every rule of auto_detect_priority, and for what is just short of one
DetectTexts == {T_hi, T_urgent_bangs, T_bug_review, T_review, T_mention, T_at,
                T_caps, T_caps5, T_bangs3, T_bangs2, T_URGENT, T_caps_review}

\* manual_priority: absent, the four codes, and integers that are none of them
DetectPriorities == {None, Some(0), Some(1), Some(2), Some(3), Some(4),
                     Some(5), Some(7), Some(-1)}

AdmitAny ==
    \E message \in DetectTexts, user \in Users, manual_priority \in DetectPriorities :
        LET R == add_message(CurEngine, max_size, message, user, manual_priority, now) IN
        /\ Len(obs.admit_log) < MaxDetectAdmits
        /\ SetEngine(R)
        /\ op' = "add_message"
        /\ ret' = Some(R.msg)
        /\ obs' = [obs EXCEPT !.admit_log = Append(@, R.msg.counter),
                              !.since_clear = @ + 1,
                              !.admitted = Append(@, R.msg),
                              !.args = Some([message |-> message,
                                             manual_priority |-> manual_priority]),
                              !.run = <<>>]
        /\ UNCHANGED <<max_size, batchVars, retryVars, now, pc, th>>

InitAdmit ==
    /\ InitEngine /\ max_size = MAX_HISTORY_SIZE /\ InitBatch /\ InitRetry /\ InitRest

NextAdmit ==
    \/ AdmitAny
    \/ EngineNext

SpecAdmit == InitAdmit /\ [][NextAdmit]_vars

\* ---------------------- the Batch Stage's operations, called one after another

Released(by, batch) == IF batch = <<>> THEN <<>> ELSE <<[by |-> by, batch |-> batch]>>

BatchEnqueue ==
    /\ obs.n_enq < MaxEnqueues
    /\ batch_queue' = batch_enqueue(batch_queue, [id |-> obs.n_enq + 1])
    /\ op' = "enqueue"
    /\ ret' = None
    /\ obs' = [obs EXCEPT !.n_enq = @ + 1]
    /\ UNCHANGED <<engineVars, min_batch_size, max_batch_size, retryVars, now, pc, th>>

BatchFlush ==
    LET R == flush(batch_queue, min_batch_size, max_batch_size) IN
    /\ batch_queue' = R.queue
    /\ op' = "flush"
    /\ ret' = Some(R.batch)
    /\ obs' = [obs EXCEPT !.released = @ \o Released("flush", R.batch)]
    /\ UNCHANGED <<engineVars, min_batch_size, max_batch_size, retryVars, now, pc, th>>

BatchForceFlush ==
    LET R == force_flush(batch_queue) IN
    /\ batch_queue' = R.queue
    /\ op' = "force_flush"
    /\ ret' = Some(R.batch)
    /\ obs' = [obs EXCEPT !.released = @ \o Released("force_flush", R.batch)]
    /\ UNCHANGED <<engineVars, min_batch_size, max_batch_size, retryVars, now, pc, th>>

\* BatchQueue(min_batch_size, max_batch_size) with small thresholds, min <= max,
\* then any sequence of its operations
InitBatchSpec ==
    /\ InitEngine /\ max_size = MAX_HISTORY_SIZE /\ InitRetry /\ InitRest
    /\ batch_queue = <<>>
    /\ min_batch_size \in 1..MaxMinBatch
    /\ max_batch_size \in min_batch_size..MaxMaxBatch

NextBatch ==
    \/ BatchEnqueue
    \/ BatchFlush
    \/ BatchForceFlush

SpecBatch == InitBatchSpec /\ [][NextBatch]_vars

\* ---------------------- the Retry Stage's operations, called one after another

\* what a call that took R.ready out of the queue adds to the log
Left(queue, how, t) ==
    <<[id |-> queue[1][1].id, retry_count |-> queue[1][2], how |-> how, at |-> t]>>

RetryEnqueue ==
    \E retry_count \in 0..MaxRetryCount :
        /\ obs.n_enq < MaxRetryEnqueues
        /\ retry_queue' = retry_enqueue(retry_queue, [id |-> obs.n_enq + 1], retry_count, now)
        /\ op' = "enqueue"
        /\ ret' = None
        /\ obs' = [obs EXCEPT !.n_enq = @ + 1,
                              !.enq_log = Append(@, [id |-> obs.n_enq + 1,
                                                     retry_count |-> retry_count,
                                                     at |-> now]),
                              !.took = None]
        /\ UNCHANGED <<engineVars, batchVars, max_retries, now, pc, th>>

RetryReady ==
    LET R == get_ready_message(retry_queue, now) IN
    /\ retry_queue' = R.queue
    /\ op' = "get_ready_message"
    /\ ret' = R.ready
    /\ obs' = [obs EXCEPT !.left = IF R.ready = None THEN @
                                   ELSE @ \o Left(retry_queue, "returned", now),
                          !.took = IF R.ready = None THEN None ELSE Some(retry_queue[1])]
    /\ UNCHANGED <<engineVars, batchVars, max_retries, now, pc, th>>

RetryProcess ==
    LET R == process(retry_queue, max_retries, now) IN
    /\ retry_queue' = R.queue
    /\ op' = "process"
    /\ ret' = R.msg
    /\ obs' = [obs EXCEPT !.left = IF R.msg # None THEN @ \o Left(retry_queue, "returned", now)
                                   ELSE IF R.dropped # None
                                        THEN @ \o Left(retry_queue, "dropped", now)
                                        ELSE @,
                          !.took = IF R.msg = None /\ R.dropped = None THEN None
                                   ELSE Some(retry_queue[1])]
    /\ UNCHANGED <<engineVars, batchVars, max_retries, now, pc, th>>

\* time.time() moves on between calls
RetryTick ==
    /\ now < MaxRetryTime
    /\ now' = now + 1
    /\ op' = "tick"
    /\ ret' = None
    /\ obs' = [obs EXCEPT !.took = None]
    /\ UNCHANGED <<engineVars, batchVars, retryVars, pc, th>>

\* RetryQueue(max_retries) with a small limit, then any sequence of its operations
InitRetrySpec ==
    /\ InitEngine /\ max_size = MAX_HISTORY_SIZE /\ InitBatch /\ InitRest
    /\ retry_queue = <<>>
    /\ max_retries \in 1..MaxMaxRetries

NextRetry ==
    \/ RetryEnqueue
    \/ RetryReady
    \/ RetryProcess
    \/ RetryTick

SpecRetry == InitRetrySpec /\ [][NextRetry]_vars

\* ------------------------------------ ChatSocketHandlers, one call at a time

\* A raw 'priority' of the request is absent, an integer [int |-> n] or a string
\* [str |-> s].  int(x): the optional value, None standing for ValueError.
RECURSIVE DigitsValue(_)
DigitsValue(ds) ==
    IF ds = <<>> THEN 0
    ELSE 10 * DigitsValue(SubSeq(ds, 1, Len(ds) - 1))
         + (CHOOSE i \in DOMAIN Digits : Digits[i] = ds[Len(ds)]) - 1

py_int(x) ==
    IF "int" \in DOMAIN x THEN Some(x.int)
    ELSE LET body == str_strip(x.str)
             signed == body # <<>> /\ body[1] \in {"-", "+"}
             ds == IF signed THEN Tail(body) ELSE body
         IN  IF ds = <<>> \/ \E i \in DOMAIN ds : ~IsDigit(ds[i]) THEN None
             ELSE IF signed /\ body[1] = "-" THEN Some(0 - DigitsValue(ds))
             ELSE Some(DigitsValue(ds))

\* on_send_message, lines 107-114: the manual priority handed to add_message
priority_override(raw_priority) ==
    IF raw_priority = None THEN None
    ELSE LET n == py_int(raw_priority[1]) IN
         IF n # None /\ n[1] \in {1, 2, 3, 4} THEN n ELSE None

\* the loop over a failed batch stopping one message short
RECURSIVE retry_enqueue_all_but_last(_, _, _)
retry_enqueue_all_but_last(queue, batch, t) ==
    IF Len(batch) <= 1 THEN queue
    ELSE retry_enqueue_all_but_last(retry_enqueue(queue, Head(batch), 0, t), Tail(batch), t)

\* on_send_message, lines 141-142: every message of a failed batch goes to the
\* Retry Stage, each with the default retry_count
RECURSIVE retry_enqueue_all(_, _, _)
retry_enqueue_all(queue, batch, t) ==
    IF batch = <<>> THEN queue
    ELSE retry_enqueue_all(retry_enqueue(queue, Head(batch), 0, t), Tail(batch), t)

\* a failed redelivery that is not put back
requeue_failed_drops(queue, retry_msg, t) == queue

\* process_retry_queue, line 168: a message whose redelivery failed goes back with
\* the default retry_count
requeue_failed(queue, retry_msg, t) == retry_enqueue(queue, retry_msg, 0, t)

T_blank == <<" ">>
\* a text one character over the limit of validate_message
T_long == [i \in 1..(MAX_MESSAGE_LENGTH + 1) |-> "a"]
SubmitTexts == {T_hi, T_blank, T_long}
SubmitPriorities == {None, Some([str |-> <<"4">>])}
SystemTexts == {T_hi}
SystemPriorities == {3}

Zeros(n) == [i \in 1..n |-> 0]

\* on_send_message up to the call of process_retry_queue.  emit either returns or
\* raises (outcomes: the truth values of "emit returned" that can happen); the
\* caller is then inside process_retry_queue.
SendMessage(outcomes) ==
    \E raw_message \in SubmitTexts, raw_user \in Users, raw_priority \in SubmitPriorities :
        LET message_validation == validate_message(raw_message)
            clean_user == validate_username(raw_user)
            A == add_message(CurEngine, max_size, message_validation.sanitized_message,
                             clean_user, priority_override(raw_priority), now)
            N == get_next_message(A)
            formatted_msg == format_message_for_client(N.msg[1])
            F == flush(batch_enqueue(batch_queue, formatted_msg),
                       min_batch_size, max_batch_size)
        IN
        /\ pc = "idle"
        /\ message_validation.valid => message_counter < MaxSubmits
        /\ op' = "on_send_message"
        /\ IF ~message_validation.valid
           THEN /\ ret' = Some(FALSE)
                /\ obs' = [obs EXCEPT !.emit = NoEmit, !.request = Some(raw_message)]
                /\ UNCHANGED <<engineVars, batchVars, retryVars, pc>>
           ELSE /\ SetEngine(N)
                /\ batch_queue' = F.queue
                /\ \E sent \in (IF F.batch = <<>> THEN {TRUE} ELSE outcomes) :
                      IF sent
                      THEN /\ retry_queue' = retry_queue
                           /\ obs' = [obs EXCEPT
                                 !.emit = IF F.batch = <<>> THEN NoEmit
                                          ELSE [result |-> "ok", batch |-> F.batch],
                                 !.request = Some(raw_message),
                                 !.pulled = Append(@, N.msg[1].counter),
                                 !.delivered = @ + Len(F.batch)]
                      ELSE /\ retry_queue' = retry_enqueue_all(retry_queue, F.batch, now)
                           /\ obs' = [obs EXCEPT
                                 !.emit = [result |-> "failed", batch |-> F.batch],
                                 !.request = Some(raw_message),
                                 !.pulled = Append(@, N.msg[1].counter),
                                 !.tries = @ \o Zeros(Len(F.batch))]
                /\ ret' = None
                /\ pc' = "drain"
                /\ UNCHANGED <<max_size, min_batch_size, max_batch_size, max_retries>>
        /\ UNCHANGED <<now, th>>

\* One turn of the loop of process_retry_queue: process() yields nothing and the
\* loop ends (on_send_message returns True), or it yields a message whose emit
\* returns or raises.
DrainStep(outcomes) ==
    LET R == process(retry_queue, max_retries, now) IN
    /\ pc = "drain"
    /\ op' = "process_retry_queue"
    /\ IF R.msg = None
       THEN /\ retry_queue' = R.queue
            /\ obs' = [obs EXCEPT
                  !.emit = NoEmit,
                  !.tries = IF R.dropped = None THEN @ ELSE Tail(@),
                  !.dropped = IF R.dropped = None THEN @ ELSE @ + 1]
            /\ ret' = Some(TRUE)
            /\ pc' = "idle"
       ELSE /\ \E sent \in outcomes :
                  IF sent
                  THEN /\ retry_queue' = R.queue
                       /\ obs' = [obs EXCEPT
                             !.emit = [result |-> "ok", batch |-> <<R.msg[1]>>],
                             !.tries = Tail(@),
                             !.delivered = @ + 1]
                  ELSE /\ retry_queue' = requeue_failed(R.queue, R.msg[1], now)
                       /\ obs' = [obs EXCEPT
                             !.emit = [result |-> "failed", batch |-> <<R.msg[1]>>],
                             !.tries = Append(Tail(@), Min(Head(@) + 1, max_retries + 1))]
            /\ ret' = None
            /\ pc' = "drain"
    /\ UNCHANGED <<engineVars, batchVars, max_retries, now, th>>

\* broadcast_system_message: an emit that raises is caught by the handler's own
\* except clause, after force_flush has emptied the queue.
BroadcastSystem(outcomes) ==
    \E message \in SystemTexts, priority \in SystemPriorities :
        LET A == add_message(CurEngine, max_size, message, SYSTEM, Some(priority), now)
            N == get_next_message(A)
            formatted_msg == format_message_for_client(N.msg[1])
            F == force_flush(batch_enqueue(batch_queue, formatted_msg))
        IN
        /\ pc = "idle"
        /\ message_counter < MaxSubmits
        /\ op' = "broadcast_system_message"
        /\ SetEngine(N)
        /\ batch_queue' = F.queue
        /\ \E sent \in outcomes :
              obs' = [obs EXCEPT
                  !.emit = [result |-> IF sent THEN "ok" ELSE "failed", batch |-> F.batch],
                  !.pulled = Append(@, N.msg[1].counter),
                  !.delivered = IF sent THEN @ + Len(F.batch) ELSE @,
                  !.lost = IF sent THEN @ ELSE @ + Len(F.batch)]
        /\ ret' = None
        /\ UNCHANGED <<max_size, min_batch_size, max_batch_size, retryVars, now, pc, th>>

\* Time passes.  The pipeline reads the clock for message timestamps and for retry
\* deadlines; the clock is advanced only while a retry entry is waiting.
Tick(limit) ==
    /\ now < limit
    /\ retry_queue # <<>>
    /\ now' = now + 1
    /\ op' = "tick"
    /\ ret' = None
    /\ obs' = [obs EXCEPT !.emit = NoEmit]
    /\ UNCHANGED <<engineVars, batchVars, retryVars, pc, th>>

\* app.py: one PriorityMessageQueue(1000) and one ChatSocketHandlers
Init ==
    /\ InitEngine /\ max_size = MAX_HISTORY_SIZE /\ InitBatch /\ InitRetry /\ InitRest

Next ==
    \/ SendMessage(BOOLEAN)
    \/ DrainStep(BOOLEAN)
    \/ BroadcastSystem(BOOLEAN)
    \/ Tick(MaxTime)

Spec == Init /\ [][Next]_vars

\* The same program while the transport is down: every emit raises.
NextOutage ==
    \/ SendMessage({FALSE})
    \/ DrainStep({FALSE})
    \/ BroadcastSystem({FALSE})
    \/ Tick(MaxOutage)

SpecOutage == Init /\ [][NextOutage]_vars

\* The submit and drain path alone: no broadcast_system_message call is made.
NextSubmit ==
    \/ SendMessage(BOOLEAN)
    \/ DrainStep(BOOLEAN)
    \/ Tick(MaxTime)

SpecSubmit == Init /\ [][NextSubmit]_vars

\* The submit and drain path over unbounded time.  RetryQueue only compares time.time()
\* with deadlines it computed as time.time() + 2**k, so the origin of the clock
\* does not matter: once the clock has reached MaxTime a further unit of time is
\* modelled by moving the origin, which takes one unit off every deadline (a
\* deadline at or before the origin is ready at every clock value).
ShiftDeadlines(queue) ==
    [i \in DOMAIN queue |->
        <<queue[i][1], queue[i][2], IF queue[i][3] > 0 THEN queue[i][3] - 1 ELSE 0>>]

Clock ==
    /\ retry_queue # <<>>
    /\ IF now < MaxTime
       THEN now' = now + 1 /\ retry_queue' = retry_queue
       ELSE now' = now /\ retry_queue' = ShiftDeadlines(retry_queue)
    /\ op' = "tick"
    /\ ret' = None
    /\ obs' = [obs EXCEPT !.emit = NoEmit]
    /\ UNCHANGED <<engineVars, batchVars, max_retries, pc, th>>

NextLive ==
    \/ SendMessage(BOOLEAN)
    \/ DrainStep(BOOLEAN)
    \/ Clock

\* What runs without a client asking for it: a handler that has started goes on
\* (the loop of process_retry_queue takes its next turn) and time passes.  Nothing
\* obliges a client to send a message.
SpecLive ==
    /\ Init
    /\ [][NextLive]_vars
    /\ WF_vars(DrainStep(BOOLEAN))
    /\ WF_vars(Clock)

\* The submit and drain path while the transport works: every emit returns.  No
\* message reaches the Retry Stage, so the clock plays no part.
NextDelivers ==
    \/ SendMessage({TRUE})
    \/ DrainStep({TRUE})

SpecDelivers ==
    /\ Init
    /\ [][NextDelivers]_vars
    /\ WF_vars(DrainStep({TRUE}))

\* ------------------------- add_message called from several handler threads
\* app.py runs Flask-SocketIO with async_mode='threading': every handler call is a
\* thread of its own, and PriorityMessageQueue takes no lock.  A thread can be
\* switched out between any two bytecodes: `self.message_counter += 1` is a load
\* and a store, the counter is read again for the dict and once more for the heap
\* tuple; heappush and deque.append are single C calls.

Producers == 1..NProducers

IdleThread(left) ==
    [pc |-> IF left = 0 THEN "done" ELSE "idle", left |-> left, raised |-> FALSE]

\* the call begins: its arguments, time.time() and the priority are the thread's own
CA_Begin(t) ==
    \E message \in EngineTexts, user \in Users :
        /\ th[t].pc = "idle"
        /\ th' = [th EXCEPT ![t] = [pc |-> "load", left |-> th[t].left,
                                    raised |-> th[t].raised,
                                    message |-> message, user |-> user,
                                    timestamp |-> now]]
        /\ op' = "add_message"
        /\ UNCHANGED <<engineVars, batchVars, retryVars, now, pc, ret, obs>>

\* line 67, first half: read self.message_counter
CA_Load(t) ==
    /\ th[t].pc = "load"
    /\ th' = [th EXCEPT ![t] = [f \in DOMAIN @ \cup {"tmp"} |->
                                   IF f = "tmp" THEN message_counter
                                   ELSE IF f = "pc" THEN "store" ELSE @[f]]]
    /\ op' = "add_message"
    /\ UNCHANGED <<engineVars, batchVars, retryVars, now, pc, ret, obs>>

\* line 67, second half: write the value read plus one
CA_Store(t) ==
    /\ th[t].pc = "store"
    /\ message_counter' = th[t].tmp + 1
    /\ th' = [th EXCEPT ![t].pc = "build"]
    /\ op' = "add_message"
    /\ UNCHANGED <<priority_queue, history, max_size, batchVars, retryVars, now, pc, ret, obs>>

\* lines 70-87: the message object, with 'counter' read from self.message_counter
CA_Build(t) ==
    LET priority == auto_detect_priority(th[t].message)
        message_obj == [text |-> th[t].message,
                        priority |-> priority,
                        priority_name |-> get_priority_name(priority),
                        user |-> th[t].user,
                        timestamp |-> th[t].timestamp,
                        counter |-> message_counter,
                        detection_method |-> "auto"]
    IN
    /\ th[t].pc = "build"
    /\ th' = [th EXCEPT ![t] = [f \in DOMAIN @ \cup {"message_obj"} |->
                                   IF f = "message_obj" THEN message_obj
                                   ELSE IF f = "pc" THEN "key" ELSE @[f]]]
    /\ op' = "add_message"
    /\ UNCHANGED <<engineVars, batchVars, retryVars, now, pc, ret, obs>>

\* line 93: the heap tuple, with self.message_counter read once more
CA_Key(t) ==
    /\ th[t].pc = "key"
    /\ th' = [th EXCEPT ![t] = [f \in DOMAIN @ \cup {"item"} |->
                                   IF f = "item"
                                   THEN <<th[t].message_obj.priority, message_counter,
                                          th[t].message_obj>>
                                   ELSE IF f = "pc" THEN "push" ELSE @[f]]]
    /\ op' = "add_message"
    /\ UNCHANGED <<engineVars, batchVars, retryVars, now, pc, ret, obs>>

\* lines 91-94: heappush.  When it raises TypeError the item stays in the list and
\* the call ends there, before the history is written.
CA_Push(t) ==
    /\ th[t].pc = "push"
    /\ priority_queue' = heappush(priority_queue, th[t].item)
    /\ IF heappush_raises(priority_queue, th[t].item)
       THEN th' = [th EXCEPT ![t] = [IdleThread(th[t].left - 1) EXCEPT !.raised = TRUE]]
       ELSE th' = [th EXCEPT ![t].pc = "hist"]
    /\ op' = "add_message"
    /\ UNCHANGED <<history, max_size, message_counter, batchVars, retryVars, now, pc, ret, obs>>

\* line 97: history.enqueue, and the call returns
CA_Hist(t) ==
    /\ th[t].pc = "hist"
    /\ history' = circular_enqueue(history, max_size, th[t].message_obj)
    /\ th' = [th EXCEPT ![t] = [IdleThread(th[t].left - 1) EXCEPT !.raised = th[t].raised]]
    /\ op' = "add_message"
    /\ ret' = Some(th[t].message_obj)
    /\ UNCHANGED <<priority_queue, max_size, message_counter, batchVars, retryVars, now, pc, obs>>

ProducersDone == \A t \in Producers : th[t].pc = "done"

\* Once every producer has returned, one caller drains with get_next_message; a
\* heappop that raises TypeError ends the drain.
ConcDrain ==
    /\ ProducersDone
    /\ pc = "idle"
    /\ priority_queue # <<>>
    /\ op' = "get_next_message"
    /\ IF heappop_raises(priority_queue)
       THEN /\ priority_queue' = heappop_raised(priority_queue)
            /\ ret' = None
            /\ pc' = "TypeError"
            /\ obs' = obs
       ELSE /\ priority_queue' = get_next_message(CurEngine).pq
            /\ ret' = get_next_message(CurEngine).msg
            /\ pc' = pc
            /\ obs' = [obs EXCEPT !.run = @ \o get_next_message(CurEngine).msg]
    /\ UNCHANGED <<history, max_size, message_counter, batchVars, retryVars, now, th>>

InitConcAdmit ==
    /\ InitEngine /\ max_size = MAX_HISTORY_SIZE /\ InitBatch /\ InitRetry
    /\ now = 0 /\ pc = "idle" /\ op = "init" /\ ret = None /\ obs = InitObs
    /\ th = [t \in Producers |-> IdleThread(MsgsPerProducer)]

NextConcAdmit ==
    \/ \E t \in Producers :
          \/ CA_Begin(t)
          \/ CA_Load(t)
          \/ CA_Store(t)
          \/ CA_Build(t)
          \/ CA_Key(t)
          \/ CA_Push(t)
          \/ CA_Hist(t)
    \/ ConcDrain

SpecConcAdmit == InitConcAdmit /\ [][NextConcAdmit]_vars

\* --------------------- the Batch Stage called from several handler threads
\* BatchQueue takes no lock either.  deque.append, popleft, clear, len and
\* list(deque) are single C calls; a thread can be switched out between them.

Workers == 1..NWorkers

\* any thread: BatchQueue.enqueue (one deque.append)
CB_Enqueue ==
    /\ obs.n_enq < MaxEnqueues
    /\ batch_queue' = batch_enqueue(batch_queue, [id |-> obs.n_enq + 1])
    /\ op' = "enqueue"
    /\ obs' = [obs EXCEPT !.n_enq = @ + 1]
    /\ UNCHANGED <<engineVars, min_batch_size, max_batch_size, retryVars, now, pc, th, ret>>

\* flush, lines 31-32: the size check
CB_FlushCheck(t) ==
    /\ th[t].pc = "idle"
    /\ IF Len(batch_queue) < min_batch_size
       THEN th' = [th EXCEPT ![t] = [IdleThread(th[t].left - 1) EXCEPT !.raised = th[t].raised]]
       ELSE th' = [th EXCEPT ![t] = [pc |-> "flush_test", left |-> th[t].left,
                                     raised |-> th[t].raised, batch |-> <<>>]]
    /\ op' = "flush"
    /\ UNCHANGED <<engineVars, batchVars, retryVars, now, pc, ret, obs>>

\* flush, line 35: the loop test; when it fails the batch is returned
CB_FlushTest(t) ==
    /\ th[t].pc = "flush_test"
    /\ IF batch_queue # <<>> /\ Len(th[t].batch) < max_batch_size
       THEN /\ th' = [th EXCEPT ![t].pc = "flush_pop"]
            /\ UNCHANGED <<ret, obs>>
       ELSE /\ th' = [th EXCEPT ![t] = [IdleThread(th[t].left - 1) EXCEPT !.raised = th[t].raised]]
            /\ ret' = Some(th[t].batch)
            /\ obs' = [obs EXCEPT !.released = @ \o <<[by |-> "flush", batch |-> th[t].batch]>>]
    /\ op' = "flush"
    /\ UNCHANGED <<engineVars, batchVars, retryVars, now, pc>>

\* flush, line 36: popleft, which raises IndexError on an empty deque (the call
\* ends there and what it had popped is gone with it)
CB_FlushPop(t) ==
    /\ th[t].pc = "flush_pop"
    /\ IF batch_queue = <<>>
       THEN /\ th' = [th EXCEPT ![t] = [IdleThread(th[t].left - 1) EXCEPT !.raised = TRUE]]
            /\ batch_queue' = batch_queue
       ELSE /\ th' = [th EXCEPT ![t].batch = Append(@, Head(batch_queue)),
                                ![t].pc = "flush_test"]
            /\ batch_queue' = Tail(batch_queue)
    /\ op' = "flush"
    /\ UNCHANGED <<engineVars, min_batch_size, max_batch_size, retryVars, now, pc, ret, obs>>

\* force_flush, line 43: list(self.queue)
CB_ForceCopy(t) ==
    /\ th[t].pc = "idle"
    /\ th' = [th EXCEPT ![t] = [pc |-> "force_clear", left |-> th[t].left,
                                raised |-> th[t].raised, batch |-> batch_queue]]
    /\ op' = "force_flush"
    /\ UNCHANGED <<engineVars, batchVars, retryVars, now, pc, ret, obs>>

\* force_flush, lines 44-46: self.queue.clear() and the copy is returned
CB_ForceClear(t) ==
    /\ th[t].pc = "force_clear"
    /\ batch_queue' = <<>>
    /\ th' = [th EXCEPT ![t] = [IdleThread(th[t].left - 1) EXCEPT !.raised = th[t].raised]]
    /\ op' = "force_flush"
    /\ ret' = Some(th[t].batch)
    /\ obs' = [obs EXCEPT !.released = @ \o Released("force_flush", th[t].batch)]
    /\ UNCHANGED <<engineVars, min_batch_size, max_batch_size, retryVars, now, pc>>

InitConcBatch ==
    /\ InitEngine /\ max_size = MAX_HISTORY_SIZE /\ InitRetry
    /\ batch_queue = <<>>
    /\ min_batch_size \in 1..MaxMinBatch
    /\ max_batch_size \in min_batch_size..MaxMaxBatch
    /\ now = 0 /\ pc = "idle" /\ op = "init" /\ ret = None /\ obs = InitObs
    /\ th = [t \in Workers |-> IdleThread(CallsPerWorker)]

NextConcBatch ==
    \/ CB_Enqueue
    \/ \E t \in Workers :
          \/ CB_FlushCheck(t)
          \/ CB_FlushTest(t)
          \/ CB_FlushPop(t)
          \/ CB_ForceCopy(t)
          \/ CB_ForceClear(t)

SpecConcBatch == InitConcBatch /\ [][NextConcBatch]_vars

\* --------------------- the Retry Stage called from several handler threads
\* process_retry_queue runs at the end of every on_send_message, so several
\* threads can be inside RetryQueue.process at once; RetryQueue takes no lock.

\* any thread: RetryQueue.enqueue (one deque.append)
CR_Enqueue ==
    \E retry_count \in 0..MaxMaxRetries :
        /\ obs.n_enq < MaxRetryEnqueues
        /\ retry_queue' = retry_enqueue(retry_queue, [id |-> obs.n_enq + 1], retry_count, now)
        /\ op' = "enqueue"
        /\ obs' = [obs EXCEPT !.n_enq = @ + 1]
        /\ UNCHANGED <<engineVars, batchVars, max_retries, now, pc, th, ret>>

\* get_ready_message, lines 32-33: `if not self.queue: return None`
CR_Empty(t) ==
    /\ th[t].pc = "idle"
    /\ IF retry_queue = <<>>
       THEN /\ th' = [th EXCEPT ![t] = [IdleThread(th[t].left - 1) EXCEPT !.raised = th[t].raised]]
            /\ ret' = None
       ELSE /\ th' = [th EXCEPT ![t].pc = "peek"]
            /\ ret' = ret
    /\ op' = "process"
    /\ UNCHANGED <<engineVars, batchVars, retryVars, now, pc, obs>>

\* line 35: self.queue[0], IndexError on an empty deque
CR_Peek(t) ==
    /\ th[t].pc = "peek"
    /\ IF retry_queue = <<>>
       THEN th' = [th EXCEPT ![t] = [IdleThread(th[t].left - 1) EXCEPT !.raised = TRUE]]
       ELSE th' = [th EXCEPT ![t] = [pc |-> "time", left |-> th[t].left,
                                     raised |-> th[t].raised, head |-> retry_queue[1]]]
    /\ op' = "process"
    /\ UNCHANGED <<engineVars, batchVars, retryVars, now, pc, ret, obs>>

\* line 36: `if time.time() >= next_time`, else None is returned
CR_Time(t) ==
    /\ th[t].pc = "time"
    /\ IF now >= th[t].head[3]
       THEN /\ th' = [th EXCEPT ![t].pc = "pop"]
            /\ ret' = ret
       ELSE /\ th' = [th EXCEPT ![t] = [IdleThread(th[t].left - 1) EXCEPT !.raised = th[t].raised]]
            /\ ret' = None
    /\ op' = "process"
    /\ UNCHANGED <<engineVars, batchVars, retryVars, now, pc, obs>>

\* lines 37-38: self.queue.popleft() (IndexError on an empty deque) and the pair
\* read at line 35 is returned; process then returns the message or drops it
CR_Pop(t) ==
    /\ th[t].pc = "pop"
    /\ IF retry_queue = <<>>
       THEN /\ th' = [th EXCEPT ![t] = [IdleThread(th[t].left - 1) EXCEPT !.raised = TRUE]]
            /\ UNCHANGED <<retry_queue, ret, obs>>
       ELSE /\ th' = [th EXCEPT ![t] = [IdleThread(th[t].left - 1) EXCEPT !.raised = th[t].raised]]
            /\ retry_queue' = Tail(retry_queue)
            /\ ret' = IF th[t].head[2] < max_retries THEN Some(th[t].head[1]) ELSE None
            /\ obs' = [obs EXCEPT !.popped = Append(@,
                          [removed |-> Head(retry_queue),
                           given |-> <<th[t].head[1], th[t].head[2]>>])]
    /\ op' = "process"
    /\ UNCHANGED <<engineVars, batchVars, max_retries, now, pc>>

InitConcRetry ==
    /\ InitEngine /\ max_size = MAX_HISTORY_SIZE /\ InitBatch
    /\ retry_queue = <<>>
    /\ max_retries \in 1..MaxMaxRetries
    /\ now = 0 /\ pc = "idle" /\ op = "init" /\ ret = None /\ obs = InitObs
    /\ th = [t \in Workers |-> IdleThread(CallsPerWorker)]

\* the clock of the concurrent Retry Stage
CR_Tick ==
    /\ now < MaxTime
    /\ now' = now + 1
    /\ op' = "tick"
    /\ UNCHANGED <<engineVars, batchVars, retryVars, pc, th, ret, obs>>

NextConcRetry ==
    \/ CR_Enqueue
    \/ CR_Tick
    \/ \E t \in Workers :
          \/ CR_Empty(t)
          \/ CR_Peek(t)
          \/ CR_Time(t)
          \/ CR_Pop(t)

SpecConcRetry == InitConcRetry /\ [][NextConcRetry]_vars

\* ================================================================ claims

RemoveAt(s, i) == SubSeq(s, 1, i - 1) \o SubSeq(s, i + 1, Len(s))

\* (priority, sequence) of a message object, and its strict order
KeyLT(m1, m2) ==
    m1.priority < m2.priority \/ (m1.priority = m2.priority /\ m1.counter < m2.counter)

\* ---- C1
\* What one get_next_message step must do: on an empty pending set return None and
\* change nothing; otherwise return the one pending message whose (priority,
\* sequence) pair is below every other pending one, and remove exactly that entry.
C1_NextStep ==
    IF priority_queue = <<>>
    THEN ret' = None /\ UNCHANGED engineVars
    ELSE \E i \in DOMAIN priority_queue :
            /\ \A j \in DOMAIN priority_queue \ {i} :
                    KeyLT(priority_queue[i][3], priority_queue[j][3])
            /\ ret' = Some(priority_queue[i][3])
            /\ BagOf(priority_queue') = BagOf(RemoveAt(priority_queue, i))
            /\ UNCHANGED <<history, max_size, message_counter>>

\* The results of the get_next_message calls made in a row, with no admit (or any
\* other engine operation) in between, in this state.
C1_RunOrdered ==
    \A a, b \in DOMAIN obs.run : a < b => KeyLT(obs.run[a], obs.run[b])

(* C1: under every interleaving of add_message and get_next_message (and the    *)
(* other engine operations), each get_next_message removes and returns the      *)
(* pending message with the smallest (priority, sequence) pair, so the results  *)
(* of successive calls with no admit in between ascend by priority and, within  *)
(* a priority, by sequence; on an empty pending set it returns None and changes *)
(* nothing.                                                                     *)
C1_NextReturnsMinimum ==
    [][op' = "get_next_message" => (C1_NextStep /\ C1_RunOrdered')]_vars

\* C1's case: three get_next_message calls in a row returned two messages of one
\* priority in admission order and then one of a lower class that had been
\* admitted before both, while a fourth message is still pending.
C1_Witness ==
    /\ op = "get_next_message"
    /\ Len(obs.run) = 3
    /\ obs.run[1].priority = obs.run[2].priority
    /\ obs.run[2].priority < obs.run[3].priority
    /\ obs.run[3].counter < obs.run[1].counter
    /\ priority_queue # <<>>

\* ---- C6
\* The sequence numbers given out since the last clear_all (or since the start).
C6_CurrentEpoch ==
    SubSeq(obs.admit_log, Len(obs.admit_log) - obs.since_clear + 1, Len(obs.admit_log))

StrictlyIncreasing(s) == \A i, j \in DOMAIN s : i < j => s[i] < s[j]

(* C6 as stated: over any sequence of engine operations (clear_all included)    *)
(* the sequence numbers given out are strictly increasing in admission order,   *)
(* so none is given out twice in the process lifetime.                          *)
C6_SequenceNeverReused == StrictlyIncreasing(obs.admit_log)

(* C6 as amended: the sequence numbers given out since the most recent          *)
(* clear_all (or since construction) are strictly increasing in admission       *)
(* order, hence pairwise distinct, whatever add_message, get_next_message,      *)
(* peek_next_message, get_queue_stats and clear_queue calls come in between;    *)
(* they are exactly 1, 2, 3, ... because clear_all resets the counter to 0.     *)
C6_SequenceIncreasingSinceClearAll ==
    /\ StrictlyIncreasing(C6_CurrentEpoch)
    /\ \A i \in DOMAIN C6_CurrentEpoch : C6_CurrentEpoch[i] = i
    /\ message_counter = obs.since_clear

\* C6's case: two admissions after a clear_all that itself followed an admission,
\* with a clear_queue as the last step.
C6_Witness ==
    /\ obs.since_clear >= 2
    /\ Len(obs.admit_log) > obs.since_clear
    /\ op = "clear_queue"

\* ---- C8
\* What one flush step must do with a queue of depth d.
C8_FlushStep ==
    LET d == Len(batch_queue)
        n == Min(d, max_batch_size)
    IN  IF d < min_batch_size
        THEN ret' = Some(<<>>) /\ batch_queue' = batch_queue
        ELSE /\ ret' = Some(SubSeq(batch_queue, 1, n))
             /\ batch_queue' = SubSeq(batch_queue, n + 1, d)
             /\ min_batch_size <= Len(ret'[1]) /\ Len(ret'[1]) <= max_batch_size
             /\ Len(batch_queue') = d - n

(* C8: called one at a time, flush() on a queue of depth d returns an empty     *)
(* batch and leaves the queue as it is when d < min_batch_size; otherwise it    *)
(* returns exactly the min(d, max_batch_size) oldest messages in FIFO order     *)
(* (between min_batch_size and max_batch_size of them, as min <= max) and       *)
(* removes exactly those, leaving the other d - min(d, max_batch_size) messages *)
(* in their order.                                                              *)
C8_FlushReleasesOldestUpToMax ==
    [][op' = "flush" => C8_FlushStep]_vars

\* C8's case: a flush just returned a full batch of max_batch_size messages, more
\* than the minimum, and left messages behind.
C8_Witness ==
    /\ op = "flush"
    /\ Len(ret[1]) = max_batch_size
    /\ min_batch_size < max_batch_size
    /\ batch_queue # <<>>

\* ---- C2
(* C2: when a turn of process_retry_queue gets from process() the head entry,   *)
(* of attempt_count k, and its redelivery fails, the message goes back to the   *)
(* tail of the Retry Stage with attempt_count k + 1 and deadline now + 2^(k+1). *)
C2_FailedRedeliveryIncrementsAttempt ==
    [][(op' = "process_retry_queue" /\ obs'.emit.result = "failed")
        => retry_queue' = Append(Tail(retry_queue),
                                 <<retry_queue[1][1], retry_queue[1][2] + 1,
                                   now + Pow2(retry_queue[1][2] + 1)>>)]_vars

\* ---- C3
(* C3: while every delivery attempt fails, no message goes through more than    *)
(* max_retries redelivery attempts (it is dropped at the latest then).          *)
C3_RetriesBounded ==
    \A i \in DOMAIN obs.tries : obs.tries[i] <= max_retries

\* ---- C4
\* The Retry Stage entries a failed batch must become, at time t.
FreshEntries(batch, t) == [i \in DOMAIN batch |-> <<batch[i], 0, t + 1>>]

(* C4: when the flush of on_send_message releases a non-empty batch (the oldest *)
(* messages of the queue with the new message appended) and its delivery fails, *)
(* the Retry Stage grows by exactly one entry per message of the batch, in      *)
(* batch order, each with attempt_count 0: none is lost, none is there twice.   *)
C4_FailedBatchGoesToRetry ==
    [][(op' = "on_send_message" /\ obs'.emit.result = "failed")
        => /\ obs'.emit.batch # <<>>
           /\ Len(obs'.emit.batch) >= min_batch_size
           /\ \E i \in DOMAIN history' :
                 obs'.emit.batch \o batch_queue'
                    = Append(batch_queue, format_message_for_client(history'[i]))
           /\ retry_queue' = retry_queue \o FreshEntries(obs'.emit.batch, now)
           /\ obs'.lost = obs.lost]_vars

\* C4's case: on_send_message just had a batch of five fail, two of whose messages
\* differ, and the Retry Stage holds its five messages.
C4_Witness ==
    /\ op = "on_send_message"
    /\ obs.emit.result = "failed"
    /\ Len(obs.emit.batch) = 5
    /\ obs.emit.batch[1] # obs.emit.batch[5]
    /\ obs.emit.batch[4] # obs.emit.batch[5]
    /\ Len(retry_queue) = 5

\* ---- C5
(* C5: when broadcast_system_message force-flushes the Batch Stage and the      *)
(* delivery of that batch fails, every message of the batch (the system message *)
(* and the ordinary ones that were waiting) is in the Retry Stage afterwards.   *)
C5_FailedBroadcastGoesToRetry ==
    (op = "broadcast_system_message" /\ obs.emit.result = "failed")
        => \A i \in DOMAIN obs.emit.batch :
              \E j \in DOMAIN retry_queue : retry_queue[j][1] = obs.emit.batch[i]

\* ---- C7
(* C7: whatever the interleaving of N producers each admitting M messages, once *)
(* all have returned no add_message call has failed, the pending set holds N*M  *)
(* messages with N*M distinct sequence numbers (in the heap key and in the      *)
(* message alike), and the drain that follows returns them in (priority,        *)
(* sequence) order without failing.                                             *)
C7_ConcurrentAdmissionAtomic ==
    ProducersDone =>
        /\ \A t \in Producers : ~th[t].raised
        /\ pc # "TypeError"
        /\ Len(priority_queue) + Len(obs.run) = NProducers * MsgsPerProducer
        /\ \A i, j \in DOMAIN priority_queue :
              i # j => /\ priority_queue[i][2] # priority_queue[j][2]
                       /\ priority_queue[i][3].counter # priority_queue[j][3].counter
        /\ \A i \in DOMAIN priority_queue :
              priority_queue[i][2] = priority_queue[i][3].counter
        /\ C1_RunOrdered

\* ---- C9
\* no thread is inside a call
Quiescent == \A t \in DOMAIN th : th[t].pc \in {"idle", "done"}

\* how many times message m was handed out in a returned batch
TimesReleased(m) ==
    Cardinality({<<k, i>> \in (DOMAIN obs.released) \X (1..MaxEnqueues) :
                    i <= Len(obs.released[k].batch) /\ obs.released[k].batch[i] = m})

(* C9: under every interleaving of concurrent enqueue, flush and force_flush    *)
(* calls, every non-empty batch flush returns has between min_batch_size and    *)
(* max_batch_size messages, no flush fails on an emptied queue, and (once no    *)
(* call is in progress) every enqueued message is in exactly one returned batch *)
(* or still in the queue.                                                       *)
C9_FlushAtomic ==
    /\ \A t \in DOMAIN th : ~th[t].raised
    /\ \A k \in DOMAIN obs.released :
          obs.released[k].by = "flush" =>
              \/ obs.released[k].batch = <<>>
              \/ /\ min_batch_size <= Len(obs.released[k].batch)
                 /\ Len(obs.released[k].batch) <= max_batch_size
    /\ Quiescent =>
          \A id \in 1..obs.n_enq :
              TimesReleased([id |-> id]) + Occurrences(batch_queue, [id |-> id]) = 1

\* ---- C10
(* C10: under every interleaving of concurrent drains, the entry a              *)
(* get_ready_message call removes from the Retry Stage is the entry whose       *)
(* message it returns (so none is removed without being returned or dropped),  *)
(* and no entry is given to two callers.                                        *)
C10_ReadyAtomic ==
    /\ \A k \in DOMAIN obs.popped :
          obs.popped[k].removed[1] = obs.popped[k].given[1]
    /\ \A k, l \in DOMAIN obs.popped :
          k # l => obs.popped[k].given[1] # obs.popped[l].given[1]

\* ---- C11
\* the log record of the enqueue call that made entry e
EnqueuedAs(e) == obs.enq_log[e[1].id]

RetryCallStep == op' \in {"get_ready_message", "process"}

(* C11: an entry enqueued at time t with retry_count k has deadline t + 2^k, and *)
(* no get_ready_message / process call made before t + 2^k returns or removes it *)
C11_NotBeforeDeadline ==
    /\ [](\A i \in DOMAIN retry_queue :
             retry_queue[i][3] = EnqueuedAs(retry_queue[i]).at
                                 + Pow2(EnqueuedAs(retry_queue[i]).retry_count))
    /\ [][RetryCallStep =>
            \A i \in DOMAIN retry_queue :
                now < EnqueuedAs(retry_queue[i]).at + Pow2(EnqueuedAs(retry_queue[i]).retry_count)
                    => /\ Occurrences(retry_queue', retry_queue[i]) = 1
                       /\ (op' = "process" => ret' # Some(retry_queue[i][1]))
                       /\ (op' = "get_ready_message" =>
                              ret' # Some(<<retry_queue[i][1], retry_queue[i][2]>>))]_vars

\* a call made one time unit before the deadline of a head entry with a non-zero
\* retry_count has returned nothing and left the entry
C11_Witness ==
    /\ op = "get_ready_message"
    /\ ret = None
    /\ retry_queue # <<>>
    /\ retry_queue[1][2] > 0
    /\ now = retry_queue[1][3] - 1

\* ---- C12
(* C12: process() on a ready head entry removes it; it returns the entry's      *)
(* message when retry_count < max_retries, and returns nothing when             *)
(* retry_count >= max_retries, after which the message is never in the Retry    *)
(* Stage again.                                                                 *)
C12_ProcessReturnsOrDrops ==
    /\ [][(op' = "process" /\ retry_queue # <<>> /\ now >= retry_queue[1][3]) =>
             /\ retry_queue' = Tail(retry_queue)
             /\ IF retry_queue[1][2] < max_retries
                THEN ret' = Some(retry_queue[1][1])
                ELSE ret' = None]_vars
    /\ [](\A i \in DOMAIN obs.left :
             obs.left[i].how = "dropped" =>
                 \A j \in DOMAIN retry_queue : retry_queue[j][1].id # obs.left[i].id)

\* process has just dropped an entry at the limit, after an earlier call had
\* returned one below the limit
C12_Witness ==
    /\ op = "process"
    /\ ret = None
    /\ obs.took # None
    /\ obs.took[1][2] >= max_retries
    /\ \E i \in DOMAIN obs.left : obs.left[i].how = "returned"
    /\ retry_queue # <<>>

\* ---- C13
(* C13: get_ready_message looks only at the head entry: while the head's        *)
(* deadline has not passed a call returns nothing and leaves the queue as it    *)
(* is, even if a later entry's deadline has passed; a call never removes        *)
(* anything but the head, so entries leave in the order they were enqueued.     *)
C13_HeadOnly ==
    /\ [][RetryCallStep =>
             /\ (retry_queue # <<>> /\ now < retry_queue[1][3]) =>
                    (ret' = None /\ retry_queue' = retry_queue)
             /\ \/ retry_queue' = retry_queue
                \/ retry_queue # <<>> /\ retry_queue' = Tail(retry_queue)]_vars
    /\ [](\A i, j \in DOMAIN obs.left : i < j => obs.left[i].id < obs.left[j].id)

\* a call has returned nothing because the head is not ready, with a later entry
\* whose deadline has passed still queued behind it
C13_Witness ==
    /\ op = "get_ready_message"
    /\ ret = None
    /\ Len(retry_queue) >= 2
    /\ now < retry_queue[1][3]
    /\ now >= retry_queue[2][3]

\* ---- C14
(* C14: force_flush returns every queued message in FIFO order, whatever        *)
(* min_batch_size and max_batch_size are (nothing for an empty queue, more than *)
(* max_batch_size for a deep one), and leaves the queue empty.                  *)
C14_ForceFlushReleasesAll ==
    [][op' = "force_flush" => (ret' = Some(batch_queue) /\ batch_queue' = <<>>)]_vars

\* force_flush has returned more than max_batch_size messages
C14_Witness ==
    /\ op = "force_flush"
    /\ Len(ret[1]) > max_batch_size
    /\ min_batch_size > 1
    /\ batch_queue = <<>>

\* ---- C15
\* the last n elements of s
LastN(s, n) == SubSeq(s, Len(s) - n + 1, Len(s))

(* C15: the History Buffer never holds more than max_size messages; it holds    *)
(* the last min(admits since the last clear_all, max_size) admitted messages in *)
(* admission order, whatever their priorities and whatever get_next_message     *)
(* calls were made.                                                             *)
C15_HistoryBounded ==
    /\ Len(history) <= max_size
    /\ Len(history) = Min(Len(obs.admitted), max_size)
    /\ get_all(history) = LastN(obs.admitted, Min(Len(obs.admitted), max_size))

\* capacity + 2 admissions of different priorities, then a get_next_message
C15_Witness ==
    /\ Len(obs.admitted) = max_size + 2
    /\ max_size > 1
    /\ op = "get_next_message"
    /\ ret # None
    /\ history[1].priority # history[2].priority

\* ---- C16
\* a text the validation must reject: empty once stripped, or over the limit
MustReject(text) == str_strip(text) = <<>> \/ Len(str_strip(text)) > MAX_MESSAGE_LENGTH

(* C16: an on_send_message call whose text is empty or over-length returns      *)
(* failure and leaves the pending set, the sequence counter, the History        *)
(* Buffer, the Batch Stage and the Retry Stage unchanged; it attempts no        *)
(* delivery and runs no retry drain.                                            *)
C16_RejectionTouchesNothing ==
    [][(op' = "on_send_message" /\ MustReject(obs'.request[1])) =>
          /\ ret' = Some(FALSE)
          /\ UNCHANGED <<engineVars, batchVars, retryVars>>
          /\ obs'.emit = NoEmit
          /\ pc' = "idle"]_vars

\* an over-length text was rejected while the head of the Retry Stage was ready
\* for redelivery
C16_Witness ==
    /\ op = "on_send_message"
    /\ ret = Some(FALSE)
    /\ obs.request = Some(T_long)
    /\ retry_queue # <<>>
    /\ now >= retry_queue[1][3]

\* ---- C17
ValidCodes == {Some(p) : p \in 1..4}

StoredMessages ==
    {priority_queue[i][3] : i \in DOMAIN priority_queue} \cup Range(history)

(* C17: add_message called with a manual_priority that is not one of 1..4       *)
(* treats it as absent: the message gets the automatically detected priority    *)
(* with detection method "auto", and every stored message has its priority in   *)
(* 1..4.                                                                        *)
C17_InvalidManualIsAbsent ==
    /\ (op = "add_message" /\ obs.args[1].manual_priority \notin ValidCodes) =>
           /\ ret[1].priority = auto_detect_priority(obs.args[1].message)
           /\ ret[1].detection_method = "auto"
    /\ \A m \in StoredMessages : m.priority \in 1..4

\* ---- C18
(* C18: add_message called with a manual_priority p in 1..4 gives the message   *)
(* priority p and detection method "manual", whatever the automatic detection   *)
(* returns for the text.                                                        *)
C18_ValidManualWins ==
    (op = "add_message" /\ obs.args[1].manual_priority \in ValidCodes) =>
        /\ ret[1].priority = obs.args[1].manual_priority[1]
        /\ ret[1].priority_name = PRIORITY_NAMES[obs.args[1].manual_priority[1]]
        /\ ret[1].detection_method = "manual"

\* manual 4 on a text with an URGENT keyword came out LOW, after manual 1 on "hi"
\* came out URGENT
C18_Witness ==
    /\ op = "add_message"
    /\ obs.args = Some([message |-> T_bug_review, manual_priority |-> Some(4)])
    /\ ret[1].priority_name = "LOW"
    /\ \E m \in Range(obs.admitted) : m.text = T_hi /\ m.priority = 1

\* ---- C19
\* the rules of the detection, stated on the text itself
Contains(text, word) ==
    \E i \in 0..(Len(text) - Len(word)) : SubSeq(text, i + 1, i + Len(word)) = word
Lowered(text) == [i \in DOMAIN text |-> LowerChar(text[i])]
HasKeyword(text, keywords) == \E word \in keywords : Contains(Lowered(text), word)
AllUpper(text) ==
    /\ \E i \in DOMAIN text : IsUpperChar(text[i])
    /\ \A i \in DOMAIN text : ~IsLowerChar(text[i])
CountOf(text, c) == Cardinality({i \in DOMAIN text : text[i] = c})

C19_Expected(text) ==
    IF HasKeyword(text, URGENT_KEYWORDS) THEN 1
    ELSE IF HasKeyword(text, HIGH_KEYWORDS) THEN 2
    ELSE IF Contains(text, <<"@">>) /\ Len(text) > 1 THEN 2
    ELSE IF Len(text) > 5 /\ AllUpper(text) THEN 2
    ELSE IF CountOf(text, "!") >= 3 THEN 2
    ELSE 3

(* C19: automatic detection applies its rules in a fixed order, first match     *)
(* wins: URGENT keyword -> 1; else HIGH keyword -> 2; else '@' and length > 1   *)
(* -> 2; else length > 5 and all upper-case -> 2; else three or more '!' -> 2;  *)
(* else 3.  It never yields 4 (LOW).                                            *)
C19_DetectionRuleOrder ==
    (op = "add_message" /\ obs.args[1].manual_priority = None) =>
        /\ ret[1].priority = C19_Expected(obs.args[1].message)
        /\ ret[1].detection_method = "auto"
        /\ ret[1].priority # 4

\* a text with an URGENT and a HIGH keyword was detected URGENT, after "hello @bob",
\* an all-capitals text and "wow!!!" were detected HIGH or were short of it
C19_Witness ==
    /\ op = "add_message"
    /\ obs.args = Some([message |-> T_bug_review, manual_priority |-> None])
    /\ ret[1].priority = 1
    /\ \E m \in Range(obs.admitted) :
          m.text \in {T_mention, T_caps, T_bangs3} /\ m.priority = 2

\* ---- C20
\* the messages released so far, batch after batch, then the ones still queued
ReleaseOrder ==
    Flatten([k \in DOMAIN obs.released |-> obs.released[k].batch]) \o batch_queue

(* C20: messages keep their relative order through the Batch Stage: for any     *)
(* sequence of enqueue, flush and force_flush, a message enqueued before        *)
(* another is released in an earlier batch, or earlier in the same batch, or is *)
(* ahead of it in the queue.                                                    *)
C20_BatchKeepsOrder ==
    \A i, j \in DOMAIN ReleaseOrder : i < j => ReleaseOrder[i].id < ReleaseOrder[j].id

\* a flush and a force_flush have each released a batch of several messages, and
\* messages enqueued later are waiting
C20_Witness ==
    /\ \E k \in DOMAIN obs.released :
          obs.released[k].by = "flush" /\ Len(obs.released[k].batch) > 1
    /\ \E k \in DOMAIN obs.released :
          obs.released[k].by = "force_flush" /\ Len(obs.released[k].batch) > 1
    /\ batch_queue # <<>>

\* ---- C21
\* the head of the Retry Stage is past its deadline
ReadyHead == retry_queue # <<>> /\ now >= retry_queue[1][3]

(* C21: once the deadline of the entry at the head of the Retry Stage has       *)
(* passed, the entry is eventually consumed (redelivered or dropped), also when *)
(* no client submits another message: a ready head does not stay a ready head   *)
(* for ever.                                                                    *)
C21_ReadyEventuallyDrained == ReadyHead ~> ~ReadyHead

\* ---- C25
(* C25: every invocation of process_retry_queue terminates, whatever the        *)
(* redelivery outcomes and however time advances during the drain.              *)
C25_DrainTerminates == (pc = "drain") ~> (pc = "idle")

\* ---- C26
(* C26: every message accepted by on_send_message is eventually delivered or    *)
(* dropped after max_retries, without any further message being submitted.      *)
C26_AcceptedEventuallyDelivered ==
    \A n \in 1..MaxSubmits :
        (message_counter >= n) ~> (obs.delivered + obs.dropped >= n)

\* ---- C22
\* the count the statistics give for a priority class (absent: none)
BreakdownOf(stats, name) ==
    IF name \in DOMAIN stats.priority_breakdown THEN stats.priority_breakdown[name] ELSE 0

\* how many pending messages have priority p
PendingOf(p) ==
    Cardinality({i \in DOMAIN priority_queue : priority_queue[i][3].priority = p})

(* C22: get_queue_stats reflects the pending messages only: total_messages is   *)
(* the number of messages admitted and not yet removed, the breakdown counts    *)
(* each pending message under its own priority class and sums to                *)
(* total_messages, history_size is the size of the History Buffer, and the call *)
(* changes no state.                                                            *)
C22_StatsReflectPending ==
    /\ [](op = "get_queue_stats" =>
            /\ ret[1].total_messages = Len(obs.admitted) - obs.taken
            /\ ret[1].total_messages = Len(priority_queue)
            /\ \A p \in 1..4 : BreakdownOf(ret[1], PRIORITY_NAMES[p]) = PendingOf(p)
            /\ DOMAIN ret[1].priority_breakdown \subseteq Range(PRIORITY_NAMES)
            /\ BreakdownOf(ret[1], "URGENT") + BreakdownOf(ret[1], "HIGH")
               + BreakdownOf(ret[1], "NORMAL") + BreakdownOf(ret[1], "LOW")
                   = ret[1].total_messages
            /\ ret[1].history_size = Len(history))
    /\ [][op' = "get_queue_stats" =>
             UNCHANGED <<engineVars, batchVars, retryVars, now>>]_vars

\* statistics taken with two classes pending, after a message was dequeued and
\* with the history holding more (or other) messages than are pending
C22_Witness ==
    /\ op = "get_queue_stats"
    /\ obs.taken > 0
    /\ Cardinality(DOMAIN ret[1].priority_breakdown) >= 2
    /\ ret[1].history_size # ret[1].total_messages
    /\ max_size > 1

\* ---- C23
(* C23: on the submit and drain path, with each delivery attempt succeeding or  *)
(* failing, every accepted message is at every step in the pending set, in the  *)
(* Batch Stage, in the Retry Stage, delivered, or dropped at max_retries: the   *)
(* number admitted equals the sum of the five counts.                           *)
C23_MessageConservation ==
    message_counter = Len(priority_queue) + Len(batch_queue) + Len(retry_queue)
                      + obs.delivered + obs.dropped

\* a redelivery has just failed and its message is back in the Retry Stage, after
\* another message of the failed batch was redelivered
C23_Witness ==
    /\ op = "process_retry_queue"
    /\ obs.emit.result = "failed"
    /\ obs.delivered > 0
    /\ retry_queue # <<>>

\* ---- C24
(* C24: in sequential execution the pending set is empty before and after every *)
(* handler call: each handler admits one message and pulls one, the one just    *)
(* admitted, so messages enter the Batch Stage in sequence order whatever their *)
(* priorities.                                                                  *)
C24_PendingEmptyBetweenCalls ==
    /\ priority_queue = <<>>
    /\ obs.pulled = [i \in 1..message_counter |-> i]

\* a LOW message has entered the Batch Stage ahead of a NORMAL one admitted after
\* it, after an earlier handler call had released a batch
C24_Witness ==
    /\ op = "on_send_message"
    /\ Len(batch_queue) >= 2
    /\ batch_queue[1].priority > batch_queue[2].priority
    /\ message_counter > Len(batch_queue)
    /\ Len(obs.pulled) = message_counter

\* ---- C27
(* C27: in sequential execution of the coordinator the Batch Stage holds at     *)
(* most min_batch_size - 1 messages after every handler call, and every batch   *)
(* flush releases inside on_send_message has exactly min_batch_size messages:   *)
(* max_batch_size never limits a batch.                                         *)
C27_BatchesAreMinSized ==
    /\ Len(batch_queue) <= min_batch_size - 1
    /\ (op = "on_send_message" /\ obs.emit.result # "none") =>
           Len(obs.emit.batch) = min_batch_size

\* on_send_message has released a batch
C27_Witness ==
    /\ op = "on_send_message"
    /\ obs.emit.result = "ok"
    /\ Len(obs.emit.batch) = min_batch_size
    /\ min_batch_size < max_batch_size
    /\ batch_queue = <<>>

====
